---------------------------- MODULE Spec2Model ----------------------------
(*
  crt_filter (src/src/main.rs): the phosphor-mask stage apply_mask, the
  scanline stage apply_scanlines and the orchestrator process_image.

  A buffer is a record [w, h, px]; px maps the row-major index i = y*w + x,
  the order of enumerate_pixels_mut, to the pixel <<red, green, blue>>.
  Rust's pixel[0], pixel[1], pixel[2] are px[i][1], px[i][2], px[i][3].
*)
EXTENDS Integers, Sequences, FiniteSets, TLC

VARIABLES
    pc,             \* position of control
    image,          \* the buffer the running stage mutates in place
    before,         \* the same buffer as it was when the stage was entered
    visited,        \* indices the stage's loop has already written
    pixel_size,     \* apply_mask parameters
    red_repr,
    green_repr,
    blue_repr,
    amplification,
    one_third,      \* apply_mask locals, set before the loop
    two_thirds,
    gap_half,
    number,         \* apply_scanlines parameter (scanline count)
    sin_low,        \* rows whose f64 factor lies just below its real value
    upsampling,     \* process_image parameter
    res_x,          \* dimensions of the decoded source image
    res_y,
    out_file,       \* state of <directory>/<stem>.png
    result,         \* what process_image returned
    log,            \* calls process_image has made, in order
    ch_source,      \* the channel expression on its own: inputs and output
    ch_repr,
    ch_amp,
    ch_out

vars == <<pc, image, before, visited, pixel_size, red_repr, green_repr,
          blue_repr, amplification, one_third, two_thirds, gap_half, number,
          sin_low, upsampling, res_x, res_y, out_file, result, log,
          ch_source, ch_repr, ch_amp, ch_out>>

maskVars == <<pixel_size, red_repr, green_repr, blue_repr, amplification>>
geomVars == <<one_third, two_thirds, gap_half>>
scanVars == <<number, sin_low>>
runVars == <<upsampling, res_x, res_y, out_file, result, log>>
chVars == <<ch_source, ch_repr, ch_amp, ch_out>>

-----------------------------------------------------------------------------
(* Bounds of the model *)

MaxPixelSize == 64
MaskWidth == 26
MaskHeight == 7
MaxImage == 1
ScanWidth == 2
MaxScanlines == 3
AnyWidth == 4
AnyHeight == 2
MaxAnyScanlines == 1
MaxRes == 2
MaxUpsampling == 2
MaxRunPixelSize == 4
MaxRunScanlines == 1

(* Program constants *)

MaxU8 == 255
Amplification == 40

\* The image heights on which sin(pi * number * y / height)^2 is a multiple
\* of 1/4 for every row, so that the factor is known exactly.
Heights == {1, 2, 3, 4, 6}

U8 == 0..MaxU8
Black == <<0, 0, 0>>
NoBuffer == [w |-> 0, h |-> 0, px |-> <<>>]

Min(a, b) == IF a <= b THEN a ELSE b

Indices(buf) == 0..(buf.w * buf.h - 1)
XOf(buf, i) == i % buf.w
YOf(buf, i) == i \div buf.w

\* main passes the pure channel colours; the second triple set couples channels.
DefaultReprs == <<<<255, 0, 0>>, <<0, 255, 0>>, <<0, 0, 255>>>>
CoupledReprs == <<<<255, 64, 3>>, <<231, 255, 0>>, <<1, 230, 255>>>>
ReprSets == {DefaultReprs, CoupledReprs}

\* Input buffers: gradients that run through the whole 0..255 range.
TestImage(k, w, h) ==
    [w |-> w, h |-> h,
     px |-> [i \in 0..(w * h - 1) |->
               <<(97 * k + 37 * i + 200) % 256,
                 (41 * k + 101 * i + 216) % 256,
                 (255 * (k + 1) + 243 * i) % 256>>]]

\* A buffer of one colour.
Uniform(w, h, c) == [w |-> w, h |-> h, px |-> [i \in 0..(w * h - 1) |-> c]]

-----------------------------------------------------------------------------
(* apply_mask *)

\* One output channel: the clamp test carries the amplification, the stored
\* value does not.
MaskChannelAdds(source, repr, amp) ==
    LET q == (source * repr) \div 256
    IN  IF q + amp < 256 THEN (q + amp) % 256 ELSE 255

MaskChannel(source, repr, amp) ==
    LET q == (source * repr) \div 256
    IN  IF q + amp < 256 THEN q % 256 ELSE 255

OneThird(p) == p \div 3
TwoThirds(p) == (2 * p) \div 3

\* (0.05 * p as f64).round() as u32: round is half away from zero, and
\* 0.05 * p never falls below a half that p/20 reaches.
GapHalfWide(p) == (p + 1) \div 2

GapHalf(p) == (p + 10) \div 20

OffsetNoStagger(x) == 0

Offset(x) == IF x % (2 * pixel_size) > pixel_size THEN pixel_size \div 2 ELSE 0

\* g < a - b in u32: a release build wraps a - b to at least 2^32 - b when
\* b > a, which is above every coordinate.
LtSub(g, a, b) == IF a >= b THEN g < a - b ELSE TRUE

RowLit(x, y) ==
    /\ (y + Offset(x)) % pixel_size > gap_half
    /\ LtSub((y + Offset(x)) % pixel_size, pixel_size, gap_half)

\* The if / else-if chain of the loop body: which branch writes pixel (x, y).
StripeClosed(x, y) ==
    IF /\ x % pixel_size >= gap_half
       /\ LtSub(x % pixel_size, one_third, gap_half)
       /\ RowLit(x, y)
    THEN "red"
    ELSE IF /\ x % pixel_size >= one_third + gap_half
            /\ LtSub(x % pixel_size, two_thirds, gap_half)
            /\ RowLit(x, y)
    THEN "green"
    ELSE IF /\ x % pixel_size >= two_thirds + gap_half
            /\ LtSub(x % pixel_size, pixel_size, gap_half)
            /\ RowLit(x, y)
    THEN "blue"
    ELSE "black"

Stripe(x, y) ==
    IF /\ x % pixel_size > gap_half
       /\ LtSub(x % pixel_size, one_third, gap_half)
       /\ RowLit(x, y)
    THEN "red"
    ELSE IF /\ x % pixel_size > one_third + gap_half
            /\ LtSub(x % pixel_size, two_thirds, gap_half)
            /\ RowLit(x, y)
    THEN "green"
    ELSE IF /\ x % pixel_size > two_thirds + gap_half
            /\ LtSub(x % pixel_size, pixel_size, gap_half)
            /\ RowLit(x, y)
    THEN "blue"
    ELSE "black"

Lit(source, repr) ==
    <<MaskChannel(source, repr[1], amplification),
      MaskChannel(source, repr[2], amplification),
      MaskChannel(source, repr[3], amplification)>>

\* The value the loop body writes at index i of buf; it reads buf at i only.
MaskPixelPrev(buf, i) ==
    LET j == IF i > 0 THEN i - 1 ELSE i
        s == Stripe(XOf(buf, i), YOf(buf, i))
    IN  CASE s = "red" -> Lit(buf.px[j][1], red_repr)
          [] s = "green" -> Lit(buf.px[j][2], green_repr)
          [] s = "blue" -> Lit(buf.px[j][3], blue_repr)
          [] OTHER -> Black

MaskPixelRedOnly(buf, i) ==
    LET s == Stripe(XOf(buf, i), YOf(buf, i))
    IN  CASE s = "red" -> Lit(buf.px[i][1], red_repr)
          [] s = "green" -> Lit(buf.px[i][1], green_repr)
          [] s = "blue" -> Lit(buf.px[i][1], blue_repr)
          [] OTHER -> Black

MaskPixel(buf, i) ==
    LET s == Stripe(XOf(buf, i), YOf(buf, i))
    IN  CASE s = "red" -> Lit(buf.px[i][1], red_repr)
          [] s = "green" -> Lit(buf.px[i][2], green_repr)
          [] s = "blue" -> Lit(buf.px[i][3], blue_repr)
          [] OTHER -> Black

\* The index enumerate_pixels_mut yields next: row-major order.
NextIndex == CHOOSE i \in Indices(image) \ visited :
                 \A j \in Indices(image) \ visited : i <= j

Write(buf, i, p) == [buf EXCEPT !.px[i] = p]

\* Lines 46-49: the locals computed before the loop.
MaskEnterFrom(at) ==
    /\ pc = at
    /\ one_third' = OneThird(pixel_size)
    /\ two_thirds' = TwoThirds(pixel_size)
    /\ gap_half' = GapHalf(pixel_size)
    /\ before' = image
    /\ visited' = {}
    /\ pc' = IF Indices(image) = {} THEN "masked" ELSE "mask"

\* One iteration of the loop with pixel_size > 0.
MaskStep ==
    /\ pc = "mask"
    /\ pixel_size > 0
    /\ LET i == NextIndex
       IN  /\ image' = Write(image, i, MaskPixel(image, i))
           /\ visited' = visited \cup {i}
           /\ pc' = IF visited' = Indices(image) THEN "masked" ELSE "mask"
    /\ UNCHANGED <<before, maskVars, geomVars, scanVars, runVars, chVars>>

\* The first iteration with pixel_size = 0: x % (2 * pixel_size) panics.
MaskPanic ==
    /\ pc = "mask"
    /\ pixel_size = 0
    /\ pc' = "panicked"
    /\ result' = "panic"
    /\ UNCHANGED <<image, before, visited, maskVars, geomVars, scanVars,
                   upsampling, res_x, res_y, out_file, log, chVars>>

\* apply_mask called on its own with inputs from bounded sets.
MaskCall ==
    /\ MaskEnterFrom("call_mask")
    /\ UNCHANGED <<image, maskVars, scanVars, runVars, chVars>>

NoChannel ==
    /\ ch_source = 0
    /\ ch_repr = 0
    /\ ch_amp = 0
    /\ ch_out = -1

NoRun ==
    /\ upsampling = 1
    /\ res_x = 0
    /\ res_y = 0
    /\ out_file = "absent"
    /\ result = "none"
    /\ log = <<>>

NoScan ==
    /\ number = 0
    /\ sin_low = {}

NoGeom ==
    /\ one_third = 0
    /\ two_thirds = 0
    /\ gap_half = 0

NoMask ==
    /\ pixel_size = 1
    /\ red_repr = DefaultReprs[1]
    /\ green_repr = DefaultReprs[2]
    /\ blue_repr = DefaultReprs[3]
    /\ amplification = Amplification
    /\ NoGeom

InitMask ==
    /\ pc = "call_mask"
    /\ \E k \in 0..MaxImage : image = TestImage(k, MaskWidth, MaskHeight)
    /\ before = image
    /\ visited = {}
    /\ pixel_size \in 0..MaxPixelSize
    /\ \E r \in ReprSets : /\ red_repr = r[1]
                           /\ green_repr = r[2]
                           /\ blue_repr = r[3]
    /\ amplification \in {0, Amplification}
    /\ NoGeom
    /\ NoScan
    /\ NoRun
    /\ NoChannel

NextMask == MaskCall \/ MaskStep \/ MaskPanic

SpecMask == InitMask /\ [][NextMask]_vars


-----------------------------------------------------------------------------
(* apply_scanlines *)

\* sin(PI * density * y)^2 in quarters, density = number / res_y, on the
\* heights that divide 12 with rows at multiples of pi/6 or pi/4:
\* sin^2 is 0, 1/4, 1/2, 3/4, 1 there and has period pi.
SinSqQuarters(n, y, h) ==
    LET m == ((12 * n * y) \div h) % 12
    IN  CASE m = 0 -> 0
          [] m \in {2, 10} -> 1
          [] m \in {3, 9} -> 2
          [] m \in {4, 8} -> 3
          [] m = 6 -> 4

\* 0.3 * sin^2 + 0.7 in fortieths: 0.7 = 28/40, 1.0 = 40/40.
FactorNumBright(q) == 3 * q + 32

FactorNum(q) == 3 * q + 28

\* The largest power of two that is at most n, n >= 1.
RECURSIVE Pow2Floor(_)
Pow2Floor(n) == IF n < 2 THEN 1 ELSE 2 * Pow2Floor(n \div 2)

\* (c as f64 * 0.7) truncated. The f64 nearest 0.7 is 0.7 - 0.4 * 2^-53, so
\* the exact product is 0.7*c - 0.4*c * 2^-53. When 0.7*c is no integer the
\* truncation is floor(0.7*c). When c = 10*k the product is 7*k - 4*k * 2^-53
\* and doubles below 7*k are 2 * Pow2Floor(7*k) * 2^-53 apart: the product
\* rounds to 7*k when 4*k is at most half of that (a tie goes to 7*k, whose
\* significand is even) and to the double below 7*k otherwise.
MulSeventenths(c) ==
    LET k == c \div 10
    IN  IF c % 10 = 0 /\ k > 0 /\ 4 * k > Pow2Floor(7 * k)
        THEN 7 * k - 1
        ELSE (7 * c) \div 10

\* f64 to u8 with "as": truncation toward zero, saturating.
AsU8(v) == IF v > 255 THEN 255 ELSE IF v < 0 THEN 0 ELSE v

\* (channel as f64 * factor) as u8 on row y of a buffer of height h. At factor
\* 0.7 and 1.0 the f64 factor is known; in between it lies within a few ulps
\* of FactorNum/40, which decides the truncation unless the real product is
\* an integer, and then sin_low says on which side of it the f64 product lies.
ScanChannel(c, y, h) ==
    LET f == FactorNum(SinSqQuarters(number, y, h))
        n == c * f
    IN  AsU8(IF f = 28 THEN MulSeventenths(c)
             ELSE IF f = 40 THEN c
             ELSE IF n % 40 = 0 /\ n > 0 /\ y \in sin_low THEN n \div 40 - 1
             ELSE n \div 40)

\* The value the loop body writes at index i of buf; it reads buf at i only.
ScanPixel(buf, i) ==
    <<ScanChannel(buf.px[i][1], YOf(buf, i), buf.h),
      ScanChannel(buf.px[i][2], YOf(buf, i), buf.h),
      ScanChannel(buf.px[i][3], YOf(buf, i), buf.h)>>

\* Lines 131-133: nothing is computed per call but the density, which
\* SinSqQuarters carries as number and height.
ScanEnterFrom(at) ==
    /\ pc = at
    /\ before' = image
    /\ visited' = {}
    /\ pc' = IF Indices(image) = {} THEN "scanned" ELSE "scan"

\* One iteration of the loop.
ScanStep ==
    /\ pc = "scan"
    /\ LET i == NextIndex
       IN  /\ image' = Write(image, i, ScanPixel(image, i))
           /\ visited' = visited \cup {i}
           /\ pc' = IF visited' = Indices(image) THEN "scanned" ELSE "scan"
    /\ UNCHANGED <<before, maskVars, geomVars, scanVars, runVars, chVars>>

\* apply_scanlines called on its own with inputs from bounded sets.
ScanCall ==
    /\ ScanEnterFrom("call_scan")
    /\ UNCHANGED <<image, maskVars, geomVars, scanVars, runVars, chVars>>

\* Channel values for the scanline inputs: multiples of 10, 20 and 40, where
\* the products with the factor are integers, and others.
ScanPalette == <<255, 90, 200, 0, 170, 7, 180, 40>>

ScanImage(k, w, h) ==
    [w |-> w, h |-> h,
     px |-> [i \in 0..(w * h - 1) |->
               <<ScanPalette[((i + k) % 8) + 1],
                 ScanPalette[((3 * i + k + 1) % 8) + 1],
                 ScanPalette[((5 * i + 2 * k + 2) % 8) + 1]>>]]

\* The rows whose factor lies strictly between 0.7 and 1.0.
MidRows(n, h) == {y \in 0..(h - 1) : SinSqQuarters(n, y, h) \in 1..3}

InitScan ==
    /\ pc = "call_scan"
    /\ \E k \in 0..MaxImage : \E h \in Heights : image = ScanImage(k, ScanWidth, h)
    /\ before = image
    /\ visited = {}
    /\ NoMask
    /\ number \in 0..MaxScanlines
    /\ sin_low \in SUBSET MidRows(number, image.h)
    /\ NoRun
    /\ NoChannel

NextScan == ScanCall \/ ScanStep

SpecScan == InitScan /\ [][NextScan]_vars

-----------------------------------------------------------------------------
(* process_image *)

\* What the library calls return is outside this program: a decoded, resized,
\* blurred or tone-adjusted buffer has the dimensions the call fixes and one
\* of these colours throughout.
RunPalette == {<<255, 255, 255>>, <<200, 90, 40>>}

BlurRadiusFixed(up) == 2

BlurRadius(up) == 2 * up

Logged(entry) == log' = Append(log, entry)

\* Line 158-160, image::open succeeding: the source dimensions become known.
Decode ==
    /\ pc = "start"
    /\ \E w \in 1..MaxRes : \E h \in 1..MaxRes : \E c \in RunPalette :
          /\ h * upsampling \in Heights
          /\ image' = Uniform(w, h, c)
          /\ res_x' = w
          /\ res_y' = h
    /\ Logged(<<"open">>)
    /\ pc' = "decoded"
    /\ UNCHANGED <<before, visited, maskVars, geomVars, scanVars, upsampling,
                   out_file, result, chVars>>

\* Line 158, image::open failing: the ? returns the error.
DecodeFail ==
    /\ pc = "start"
    /\ Logged(<<"open">>)
    /\ result' = "Err"
    /\ pc' = "failed"
    /\ UNCHANGED <<image, before, visited, maskVars, geomVars, scanVars,
                   upsampling, res_x, res_y, out_file, chVars>>

\* Lines 162-167.
ResizeUp ==
    /\ pc = "decoded"
    /\ \E c \in RunPalette :
          image' = Uniform(res_x * upsampling, res_y * upsampling, c)
    /\ Logged(<<"resize", res_x * upsampling, res_y * upsampling>>)
    /\ pc' = "upsampled"
    /\ UNCHANGED <<before, visited, maskVars, geomVars, scanVars, upsampling,
                   res_x, res_y, out_file, result, chVars>>

\* Line 168.
Blur1 ==
    /\ pc = "upsampled"
    /\ \E c \in RunPalette : image' = Uniform(image.w, image.h, c)
    /\ Logged(<<"blur", BlurRadius(upsampling)>>)
    /\ pc' = "blurred"
    /\ UNCHANGED <<before, visited, maskVars, geomVars, scanVars, upsampling,
                   res_x, res_y, out_file, result, chVars>>

\* Lines 170-177: the call of apply_mask, amplification 40.
RunMask ==
    /\ MaskEnterFrom("blurred")
    /\ amplification' = Amplification
    /\ Logged(<<"apply_mask", pixel_size, Amplification>>)
    /\ UNCHANGED <<image, pixel_size, red_repr, green_repr, blue_repr,
                   scanVars, upsampling, res_x, res_y, out_file, result, chVars>>

\* Line 179.
Blur2 ==
    /\ pc = "masked"
    /\ \E c \in RunPalette : image' = Uniform(image.w, image.h, c)
    /\ Logged(<<"blur", BlurRadius(upsampling)>>)
    /\ pc' = "blurred2"
    /\ UNCHANGED <<before, visited, maskVars, geomVars, scanVars, upsampling,
                   res_x, res_y, out_file, result, chVars>>

\* Line 180: the call of apply_scanlines.
RunScan ==
    /\ ScanEnterFrom("blurred2")
    /\ Logged(<<"apply_scanlines", number>>)
    /\ UNCHANGED <<image, maskVars, geomVars, scanVars, upsampling, res_x,
                   res_y, out_file, result, chVars>>

\* Line 181.
ResizeDown ==
    /\ pc = "scanned"
    /\ \E c \in RunPalette : image' = Uniform(res_x, res_y, c)
    /\ Logged(<<"resize", res_x, res_y>>)
    /\ pc' = "resized"
    /\ UNCHANGED <<before, visited, maskVars, geomVars, scanVars, upsampling,
                   res_x, res_y, out_file, result, chVars>>

\* Line 182.
Brighten ==
    /\ pc = "resized"
    /\ \E c \in RunPalette : image' = Uniform(image.w, image.h, c)
    /\ Logged(<<"brighten">>)
    /\ pc' = "brightened"
    /\ UNCHANGED <<before, visited, maskVars, geomVars, scanVars, upsampling,
                   res_x, res_y, out_file, result, chVars>>

\* Line 183.
Contrast ==
    /\ pc = "brightened"
    /\ \E c \in RunPalette : image' = Uniform(image.w, image.h, c)
    /\ Logged(<<"contrast">>)
    /\ pc' = "toned"
    /\ UNCHANGED <<before, visited, maskVars, geomVars, scanVars, upsampling,
                   res_x, res_y, out_file, result, chVars>>

\* Lines 191-194, File::create succeeding: the file exists and is empty.
CreateFile ==
    /\ pc = "toned"
    /\ out_file' = "empty"
    /\ Logged(<<"create">>)
    /\ pc' = "created"
    /\ UNCHANGED <<image, before, visited, maskVars, geomVars, scanVars,
                   upsampling, res_x, res_y, result, chVars>>

\* Lines 191-194, File::create failing: the ? returns the error.
CreateFail ==
    /\ pc = "toned"
    /\ Logged(<<"create">>)
    /\ result' = "Err"
    /\ pc' = "failed"
    /\ UNCHANGED <<image, before, visited, maskVars, geomVars, scanVars,
                   upsampling, res_x, res_y, out_file, chVars>>

\* Lines 196-199, write_image succeeding, and the return of Ok.
Encode ==
    /\ pc = "created"
    /\ out_file' = "complete"
    /\ Logged(<<"write_image", res_x, res_y>>)
    /\ result' = "Ok"
    /\ pc' = "done"
    /\ UNCHANGED <<image, before, visited, maskVars, geomVars, scanVars,
                   upsampling, res_x, res_y, chVars>>

\* Line 197, write_image failing part way: the ? returns the error and the
\* file File::create made stays, holding what was written so far.
EncodeFail ==
    /\ pc = "created"
    /\ out_file' \in {"empty", "partial"}
    /\ Logged(<<"write_image", res_x, res_y>>)
    /\ result' = "Err"
    /\ pc' = "failed"
    /\ UNCHANGED <<image, before, visited, maskVars, geomVars, scanVars,
                   upsampling, res_x, res_y, chVars>>

\* The state main calls process_image in: lines 203-215.
InitRun ==
    /\ pc = "start"
    /\ image = NoBuffer
    /\ before = NoBuffer
    /\ visited = {}
    /\ pixel_size \in 0..MaxRunPixelSize
    /\ red_repr = DefaultReprs[1]
    /\ green_repr = DefaultReprs[2]
    /\ blue_repr = DefaultReprs[3]
    /\ amplification = 0
    /\ NoGeom
    /\ number \in 0..MaxRunScanlines
    /\ upsampling \in 1..MaxUpsampling
    /\ sin_low \in {{}, 0..(MaxRes * MaxUpsampling)}
    /\ res_x = 0
    /\ res_y = 0
    /\ out_file = "absent"
    /\ result = "none"
    /\ log = <<>>
    /\ NoChannel

NextRun ==
    \/ Decode
    \/ DecodeFail
    \/ ResizeUp
    \/ Blur1
    \/ RunMask
    \/ MaskStep
    \/ MaskPanic
    \/ Blur2
    \/ RunScan
    \/ ScanStep
    \/ ResizeDown
    \/ Brighten
    \/ Contrast
    \/ CreateFile
    \/ CreateFail
    \/ Encode
    \/ EncodeFail

SpecRun == InitRun /\ [][NextRun]_vars

-----------------------------------------------------------------------------
(* The two loops with their iterations taken in any order *)

\* One iteration of the apply_mask loop body at any pixel not yet written.
MaskAny ==
    /\ pc = "mask"
    /\ pixel_size > 0
    /\ \E i \in Indices(image) \ visited :
          /\ image' = Write(image, i, MaskPixel(image, i))
          /\ visited' = visited \cup {i}
          /\ pc' = IF visited' = Indices(image) THEN "masked" ELSE "mask"
    /\ UNCHANGED <<before, maskVars, geomVars, scanVars, runVars, chVars>>

\* One iteration of the apply_scanlines loop body at any pixel not yet written.
ScanAny ==
    /\ pc = "scan"
    /\ \E i \in Indices(image) \ visited :
          /\ image' = Write(image, i, ScanPixel(image, i))
          /\ visited' = visited \cup {i}
          /\ pc' = IF visited' = Indices(image) THEN "scanned" ELSE "scan"
    /\ UNCHANGED <<before, maskVars, geomVars, scanVars, runVars, chVars>>

\* The sequential row-major pass from index i on, as the for loop runs it.
RECURSIVE MaskPass(_, _)
MaskPass(buf, i) ==
    IF i >= buf.w * buf.h THEN buf
    ELSE MaskPass(Write(buf, i, MaskPixel(buf, i)), i + 1)

RECURSIVE ScanPass(_, _)
ScanPass(buf, i) ==
    IF i >= buf.w * buf.h THEN buf
    ELSE ScanPass(Write(buf, i, ScanPixel(buf, i)), i + 1)

InitAny ==
    /\ visited = {}
    /\ NoGeom
    /\ NoRun
    /\ NoChannel
    /\ \/ /\ pc = "call_mask"
          /\ image = TestImage(0, AnyWidth, AnyHeight)
          /\ pixel_size \in 1..AnyWidth
          /\ red_repr = CoupledReprs[1]
          /\ green_repr = CoupledReprs[2]
          /\ blue_repr = CoupledReprs[3]
          /\ amplification = Amplification
          /\ NoScan
       \/ /\ pc = "call_scan"
          /\ AnyHeight \in Heights
          /\ image = ScanImage(0, AnyWidth, AnyHeight)
          /\ pixel_size = 1
          /\ red_repr = DefaultReprs[1]
          /\ green_repr = DefaultReprs[2]
          /\ blue_repr = DefaultReprs[3]
          /\ amplification = Amplification
          /\ number \in 0..MaxAnyScanlines
          /\ sin_low \in SUBSET MidRows(number, AnyHeight)
    /\ before = image

NextAny == MaskCall \/ ScanCall \/ MaskAny \/ ScanAny

SpecAny == InitAny /\ [][NextAny]_vars

-----------------------------------------------------------------------------
(* The channel expression of lines 64-68 on its own, over every input *)

ChannelApply ==
    /\ pc = "channel"
    /\ ch_out' = MaskChannel(ch_source, ch_repr, ch_amp)
    /\ pc' = "channel_done"
    /\ UNCHANGED <<image, before, visited, maskVars, geomVars, scanVars,
                   runVars, ch_source, ch_repr, ch_amp>>

InitChannel ==
    /\ pc = "channel"
    /\ image = NoBuffer
    /\ before = NoBuffer
    /\ visited = {}
    /\ NoMask
    /\ NoScan
    /\ NoRun
    /\ ch_source \in U8
    /\ ch_repr \in U8
    /\ ch_amp \in {0, Amplification}
    /\ ch_out = -1

NextChannel == ChannelApply

SpecChannel == InitChannel /\ [][NextChannel]_vars

-----------------------------------------------------------------------------
(* Statements about apply_mask *)

InMask == pc \in {"mask", "masked"} /\ pixel_size >= 1

\* The pixels a state is examined at: the one the last iteration wrote, and
\* the whole buffer once the loop has ended (the loop runs in index order,
\* so every written pixel is the last written one in some state).
Examined ==
    IF pc \in {"masked", "scanned"} THEN visited
    ELSE IF visited = {} THEN {}
    ELSE {Cardinality(visited) - 1}

\* p/20 rounded to the nearest integer, halves away from zero.
Round20(p) == IF p % 20 >= 10 THEN p \div 20 + 1 ELSE p \div 20

\* The geometry as the specification words it, in unbounded integers.
Gx(x) == x % pixel_size
CodeOffset(x) == IF x % (2 * pixel_size) <= pixel_size THEN 0 ELSE pixel_size \div 2
Gy(x, y) == (y + CodeOffset(x)) % pixel_size
Gap == Round20(pixel_size)
RowActive(x, y) == Gap < Gy(x, y) /\ Gy(x, y) < pixel_size - Gap
InRed(g) == Gap < g /\ g < pixel_size \div 3 - Gap
InGreen(g) == pixel_size \div 3 + Gap < g /\ g < (2 * pixel_size) \div 3 - Gap
InBlue(g) == (2 * pixel_size) \div 3 + Gap < g /\ g < pixel_size - Gap
Regions(x, y) ==
    {r \in {"red", "green", "blue"} :
        /\ RowActive(x, y)
        /\ \/ r = "red" /\ InRed(Gx(x))
           \/ r = "green" /\ InGreen(Gx(x))
           \/ r = "blue" /\ InBlue(Gx(x))}
SourceChannel(r, i) ==
    CASE r = "red" -> before.px[i][1]
      [] r = "green" -> before.px[i][2]
      [] r = "blue" -> before.px[i][3]
ReprOf(r) ==
    CASE r = "red" -> red_repr
      [] r = "green" -> green_repr
      [] r = "blue" -> blue_repr
Quotient(r, i, c) == (SourceChannel(r, i) * ReprOf(r)[c]) \div 256
Clamped(q) == IF q + amplification < 256 THEN q ELSE 255

\* C1 as claimed: inside a stripe's active region every output channel is
\* floor(min(255, sourceChannel * reprChannel / 256)).
C1_MinFormula ==
    InMask =>
        \A i \in Examined : \A r \in Regions(XOf(image, i), YOf(image, i)) :
            \A c \in 1..3 : image.px[i][c] = Min(255, Quotient(r, i, c))

\* C1 as amended: inside a stripe's active region every output channel is
\* q = floor(sourceChannel * reprChannel / 256) when q + amplification < 256
\* and 255 otherwise, sourceChannel being the pixel's original red, green or
\* blue value in the red, green or blue stripe.
C1_ClampFormula ==
    InMask =>
        \A i \in Examined : \A r \in Regions(XOf(image, i), YOf(image, i)) :
            \A c \in 1..3 : image.px[i][c] = Clamped(Quotient(r, i, c))

\* A green-stripe pixel stored its quotient unchanged and another pixel
\* saturated, with the amplification of process_image.
C1_Witness ==
    /\ InMask
    /\ amplification = Amplification
    /\ \E i \in Examined :
          /\ "green" \in Regions(XOf(image, i), YOf(image, i))
          /\ Quotient("green", i, 2) \in 1..215
          /\ image.px[i][2] = Quotient("green", i, 2)
          /\ image.px[i][1] # image.px[i][2]
    /\ \E i \in Examined :
          /\ "red" \in Regions(XOf(image, i), YOf(image, i))
          /\ Quotient("red", i, 1) \in 216..254
          /\ image.px[i][1] = 255

\* C2: with amplification 40 the stored value is 255 when q + 40 >= 256 and
\* exactly q when q <= 215, q = floor(sourceChannel * reprChannel / 256); the
\* amplification is never added to the stored value.
C2_Saturation ==
    (pc = "channel_done" /\ ch_amp = Amplification) =>
        LET q == (ch_source * ch_repr) \div 256
        IN  /\ q + 40 >= 256 => ch_out = 255
            /\ q <= 215 => ch_out = q
            /\ q \in 216..255 <=> q + 40 >= 256

\* The boundary: a quotient of exactly 216 saturated.
C2_Witness ==
    /\ pc = "channel_done"
    /\ ch_amp = Amplification
    /\ (ch_source * ch_repr) \div 256 = 216
    /\ ch_out = 255

\* C3: a pixel outside all three active regions is written (0,0,0) whatever
\* its input colour, the representations and the amplification; a pixel
\* inside an active region lies in exactly one and holds that stripe's value.
C3_GutterBlack ==
    InMask =>
        \A i \in Examined :
            LET rs == Regions(XOf(image, i), YOf(image, i))
            IN  /\ rs = {} => image.px[i] = Black
                /\ rs # {} =>
                      /\ Cardinality(rs) = 1
                      /\ \A r \in rs : \A c \in 1..3 :
                            image.px[i][c] = Clamped(Quotient(r, i, c))

\* A coloured pixel in the gutter between two stripes was blackened and a
\* pixel inside a stripe was not.
C3_Witness ==
    /\ InMask
    /\ Gap >= 1
    /\ \E i \in Examined :
          /\ Regions(XOf(image, i), YOf(image, i)) = {}
          /\ RowActive(XOf(image, i), YOf(image, i))
          /\ \A c \in 1..3 : before.px[i][c] > 0
          /\ image.px[i] = Black
    /\ \E i \in Examined :
          /\ Regions(XOf(image, i), YOf(image, i)) # {}
          /\ image.px[i] # Black

\* The value at index i when the vertical offset of a column is chosen by the
\* parity of its cell index floor(x / pixel_size).
CellOffset(x) == IF (x \div pixel_size) % 2 = 0 THEN 0 ELSE pixel_size \div 2
CellRowActive(x, y) ==
    LET gy == (y + CellOffset(x)) % pixel_size
    IN  Gap < gy /\ gy < pixel_size - Gap

\* C9: for every pixel inside an active region the offset used is 0 exactly
\* when the cell index floor(x / pixel_size) is even and pixel_size/2 exactly
\* when it is odd; the column x mod (2*pixel_size) = pixel_size is never
\* inside an active region.
C9_Stagger ==
    InMask =>
        \A i \in Examined :
            LET x == XOf(image, i)
                y == YOf(image, i)
            IN  /\ Regions(x, y) # {} =>
                      /\ Offset(x) = CellOffset(x)
                      /\ (x \div pixel_size) % 2 = 0 <=> Offset(x) = 0
                      /\ (x \div pixel_size) % 2 = 1 <=> Offset(x) = pixel_size \div 2
                      /\ CellRowActive(x, y)
                /\ x % (2 * pixel_size) = pixel_size =>
                      /\ Regions(x, y) = {}
                      /\ image.px[i] = Black

\* A lit pixel of an odd cell, on a row that is lit only because of the
\* half-cell offset, and a written pixel of the column x mod 2p = p.
C9_Witness ==
    /\ InMask
    /\ \E i \in Examined :
          /\ (XOf(image, i) \div pixel_size) % 2 = 1
          /\ Regions(XOf(image, i), YOf(image, i)) # {}
          /\ ~(Gap < YOf(image, i) % pixel_size)
          /\ image.px[i] # Black
    /\ \E i \in Examined : XOf(image, i) % (2 * pixel_size) = pixel_size

\* C10: gap = round(0.05 * pixel_size) is at most pixel_size/3, so none of
\* one_third - gap, two_thirds - gap, pixel_size - gap underflows, and the
\* three stripe intervals for gx are pairwise disjoint.
C10_NoUnderflow ==
    InMask =>
        /\ gap_half = Round20(pixel_size)
        /\ gap_half <= pixel_size \div 3
        /\ one_third - gap_half >= 0
        /\ two_thirds - gap_half >= 0
        /\ pixel_size - gap_half >= 0
        /\ \A g \in 0..(pixel_size - 1) :
              LET red == gap_half < g /\ g < one_third - gap_half
                  green == one_third + gap_half < g /\ g < two_thirds - gap_half
                  blue == two_thirds + gap_half < g /\ g < pixel_size - gap_half
              IN  ~(red /\ green) /\ ~(red /\ blue) /\ ~(green /\ blue)

\* A cell with a gap of 2 (0.05 * 30 = 1.5 rounds up) and three stripes
\* that are not empty.
C10_Witness ==
    /\ InMask
    /\ gap_half = 2
    /\ \E g \in 0..(pixel_size - 1) : gap_half < g /\ g < one_third - gap_half
    /\ \E g \in 0..(pixel_size - 1) :
          one_third + gap_half < g /\ g < two_thirds - gap_half
    /\ \E g \in 0..(pixel_size - 1) :
          two_thirds + gap_half < g /\ g < pixel_size - gap_half

-----------------------------------------------------------------------------
(* Statements about apply_scanlines *)

InScan == pc \in {"scan", "scanned"}

RowFactorNum(i) == FactorNum(SinSqQuarters(number, YOf(image, i), image.h))

\* C4 as claimed: on every row 0.7 <= factor <= 1.0 (the factor is constant
\* 0.7 when the scanline count is 0) and every stored channel satisfies
\* floor(0.7 * c) <= out <= c.
C4_FloorBound ==
    InScan =>
        \A i \in Examined : \A c \in 1..3 :
            /\ 28 <= RowFactorNum(i) /\ RowFactorNum(i) <= 40
            /\ number = 0 => RowFactorNum(i) = 28
            /\ (7 * before.px[i][c]) \div 10 <= image.px[i][c]
            /\ image.px[i][c] <= before.px[i][c]

\* C4 as amended: on every row 0.7 <= factor <= 1.0 (constant 0.7 when the
\* scanline count is 0) and every stored channel satisfies
\* floor(0.7 * c) - 1 <= out <= c, with floor(0.7 * c) <= out whenever c is
\* not a multiple of 10; the stored value is within 0..255 and never above c.
C4_FloorBoundLessOne ==
    InScan =>
        \A i \in Examined : \A c \in 1..3 :
            /\ 28 <= RowFactorNum(i) /\ RowFactorNum(i) <= 40
            /\ number = 0 => RowFactorNum(i) = 28
            /\ (7 * before.px[i][c]) \div 10 - 1 <= image.px[i][c]
            /\ before.px[i][c] % 10 # 0 =>
                  (7 * before.px[i][c]) \div 10 <= image.px[i][c]
            /\ image.px[i][c] <= before.px[i][c]
            /\ image.px[i][c] \in U8

\* On a row with factor 0.7 a channel of 90 was stored as 62 and one of 255
\* as 178, and on a row with factor 1.0 a channel of 255 stayed 255.
C4_Witness ==
    /\ pc = "scanned"
    /\ \E i \in visited : \E c \in 1..3 :
          /\ RowFactorNum(i) = 28
          /\ before.px[i][c] = 90
          /\ image.px[i][c] = 62
    /\ \E i \in visited : \E c \in 1..3 :
          /\ RowFactorNum(i) = 28
          /\ before.px[i][c] = 255
          /\ image.px[i][c] = 178
    /\ \E i \in visited : \E c \in 1..3 :
          /\ RowFactorNum(i) = 40
          /\ before.px[i][c] = 255
          /\ image.px[i][c] = 255

-----------------------------------------------------------------------------
(* Statements about the order of the iterations *)

\* C8: in apply_mask and in apply_scanlines the value written at a pixel
\* depends only on its position, the parameters and that pixel's own values
\* before the stage began; so with the pixels visited in any order every
\* written pixel holds the value computed from the buffer as it was on entry,
\* every other pixel is untouched, and the finished buffer is the one the
\* sequential row-major pass produces.
C8_AnyOrder ==
    /\ pc \in {"mask", "masked"} =>
          /\ \A i \in visited : image.px[i] = MaskPixel(before, i)
          /\ \A i \in Indices(image) \ visited : image.px[i] = before.px[i]
    /\ pc = "masked" => image = MaskPass(before, 0)
    /\ pc \in {"scan", "scanned"} =>
          /\ \A i \in visited : image.px[i] = ScanPixel(before, i)
          /\ \A i \in Indices(image) \ visited : image.px[i] = before.px[i]
    /\ pc = "scanned" => image = ScanPass(before, 0)

\* The mask loop has written a lit pixel and the last pixel of the buffer
\* while the first pixels of the buffer are still unwritten.
C8_Witness ==
    /\ pc = "mask"
    /\ 0 \notin visited
    /\ 1 \notin visited
    /\ (image.w * image.h - 1) \in visited
    /\ \E i \in visited : image.px[i] # Black /\ image.px[i] # before.px[i]

-----------------------------------------------------------------------------
(* Statements about process_image *)

\* C5: after a run that fails (decode, file creation or PNG write) the
\* output file does not exist: it exists after a run only if the run
\* returned success.
C5_NoFileOnFailure ==
    pc \in {"failed", "panicked"} => out_file = "absent"

\* C6: a run with pixel_size = 0 is rejected with an error value before any
\* division or remainder by zero: it never reaches one, and it ends with Err.
C6_RejectsZeroPixel ==
    pixel_size = 0 =>
        /\ pc # "panicked"
        /\ result \in {"none", "Err"}

\* The calls of a successful run, in order.
ExpectedLog ==
    <<<<"open">>,
      <<"resize", res_x * upsampling, res_y * upsampling>>,
      <<"blur", 2 * upsampling>>,
      <<"apply_mask", pixel_size, 40>>,
      <<"blur", 2 * upsampling>>,
      <<"apply_scanlines", number>>,
      <<"resize", res_x, res_y>>,
      <<"brighten">>,
      <<"contrast">>,
      <<"create">>,
      <<"write_image", res_x, res_y>>>>

Upsampled == 0..(res_x * upsampling * res_y * upsampling - 1)

\* C7: a successful run makes the calls decode, resize up, blur, apply_mask,
\* blur, apply_scanlines, resize down to (res_x, res_y), brighten, contrast,
\* create, encode, once each and in this order, both blurs with radius
\* 2 * upsampling; a run never makes a call out of this order; while a loop
\* runs no later call has been made, and once a later call has been made the
\* loop has written its whole buffer; the output file is not created before
\* the tone adjustment has been made.
C7_StageOrder ==
    /\ result = "Ok" => log = ExpectedLog
    /\ Len(log) <= Len(ExpectedLog)
    /\ \A k \in 2..Len(log) : log[k] = ExpectedLog[k]
    /\ pc \in {"mask", "masked"} => Len(log) = 4
    /\ pc \in {"scan", "scanned"} => Len(log) = 6
    /\ (pc = "masked" \/ Len(log) = 5) => visited = Upsampled
    /\ (pc = "scanned" \/ Len(log) >= 7) =>
          /\ visited = Upsampled
          /\ before.w = res_x * upsampling /\ before.h = res_y * upsampling
    /\ out_file # "absent" => Len(log) >= 10 /\ log[8] = <<"brighten">> /\ log[9] = <<"contrast">>
    /\ Len(log) >= 7 => image.w = res_x /\ image.h = res_y

\* A run with upsampling 2 on a 2 x 2 source returned Ok with the file written.
C7_Witness ==
    /\ result = "Ok"
    /\ upsampling = 2
    /\ res_x = 2 /\ res_y = 2
    /\ pixel_size = 4
    /\ out_file = "complete"
    /\ Len(log) = 11

=============================================================================
